---- MODULE Spec2Model ----
(***************************************************************************)
(* Model of src/models/base_model.py: the U-Net builder UnetBasedModel,    *)
(* the nested UnetSkipConnectionBlock and the forward pass through the     *)
(* FPModule / BaseConvolution / GlobalBaseModule building blocks.          *)
(*                                                                         *)
(* Field names are sequences of one-character strings so that the          *)
(* singularisation name[:-1] is computed, not assumed.  Configuration      *)
(* values are records of one shape, tagged "int", "str", "none", "list" (a  *)
(* plain list) or "listconfig" (the configuration library's sequence).     *)
(* A dict (keyword arguments, a configuration section) is an association   *)
(* list <<name, value>> in insertion order.                                *)
(***************************************************************************)
EXTENDS Integers, Sequences, FiniteSets, TLC

\* ------------------------------------------------------------------ bounds
MaxLevels == 2
MaxPoints == 3
MaxRuns == 2

\* ------------------------------------------------------------------ values
IntV(n) == [tag |-> "int", n |-> n, s |-> "", items |-> <<>>]
StrV(s) == [tag |-> "str", n |-> 0, s |-> s, items |-> <<>>]
ListV(items) == [tag |-> "list", n |-> 0, s |-> "", items |-> items]
\* a ListConfig, the configuration library's sequence wrapper
ListConfig(items) == [tag |-> "listconfig", n |-> 0, s |-> "", items |-> items]
NoneV == [tag |-> "none", n |-> 0, s |-> "", items |-> <<>>]

\* ------------------------------------------------------------------- names
n_module_name == <<"m","o","d","u","l","e","_","n","a","m","e">>
n_down_conv_nn == <<"d","o","w","n","_","c","o","n","v","_","n","n">>
n_up_conv_nn == <<"u","p","_","c","o","n","v","_","n","n">>
n_ratios == <<"r","a","t","i","o","s">>
n_ratio == <<"r","a","t","i","o">>
n_radius == <<"r","a","d","i","u","s">>
n_max_num_neighbors == <<"m","a","x","_","n","u","m","_","n","e","i","g","h","b","o","r","s">>
n_up_k == <<"u","p","_","k">>
n_nn == <<"n","n">>
n_aggr == <<"a","g","g","r">>
n_index == <<"i","n","d","e","x">>
n_down_conv_cls == <<"d","o","w","n","_","c","o","n","v","_","c","l","s">>
n_up_conv_cls == <<"u","p","_","c","o","n","v","_","c","l","s">>

SPECIAL_NAMES == {n_radius}

\* ------------------------------------------------------------- dict helpers
RECURSIVE DictFind(_, _, _)
DictFind(d, k, i) ==
    IF i > Len(d) THEN 0
    ELSE IF d[i][1] = k THEN i ELSE DictFind(d, k, i + 1)

DictHas(d, k) == DictFind(d, k, 1) # 0

DictGet(d, k) == d[DictFind(d, k, 1)][2]

\* d[k] = v : an existing key keeps its place, a new key goes last
DictSet(d, k, v) ==
    IF DictHas(d, k)
    THEN [d EXCEPT ![DictFind(d, k, 1)] = <<k, v>>]
    ELSE Append(d, <<k, v>>)

\* kwargs.pop(name)
DictPop(d, k) ==
    LET j == DictFind(d, k, 1)
    IN  IF j = 0 THEN d ELSE SubSeq(d, 1, j - 1) \o SubSeq(d, j + 1, Len(d))

DictKeys(d) == {d[i][1] : i \in 1..Len(d)}

\* ------------------------------------------------ fetch_arguments_from_list
\* v[index] on a list of length n: Python accepts -n <= index < n
IndexInRange(n, index) == index >= -n /\ index < n

ListIndex(items, index) ==
    IF index >= 0 THEN items[index + 1] ELSE items[Len(items) + index + 1]

\* (variant: the exception set is not consulted)
Singular_NoExceptions(name) ==
    IF name[Len(name)] = "s" THEN SubSeq(name, 1, Len(name) - 1) ELSE name

\* name[:-1] when name[-1] == 's' and name not in SPECIAL_NAMES
Singular(name) ==
    IF name[Len(name)] = "s" /\ name \notin SPECIAL_NAMES
    THEN SubSeq(name, 1, Len(name) - 1)
    ELSE name

\* isinstance(v, ListConfig): v = list(v)
ToList(v) == IF v.tag = "listconfig" THEN ListV(v.items) ELSE v

\* isinstance(getattr(opt, o), ListConfig) and len(getattr(opt, o)) > 0
IsIndexed(v) == v.tag = "listconfig" /\ Len(v.items) > 0

\* the key one field is stored under
FieldKey(name, v) == IF IsIndexed(v) THEN Singular(name) ELSE name

\* (variant: an index past the end wraps around instead of raising)
FetchItem_Wraps(v, index) ==
    [ok |-> TRUE, val |-> ToList(v.items[(index % Len(v.items)) + 1])]

\* v_index = v[index], made a plain list when it is a ListConfig; IndexError
\* when index is out of range
FetchItem(v, index) ==
    IF IndexInRange(Len(v.items), index)
    THEN [ok |-> TRUE, val |-> ToList(ListIndex(v.items, index))]
    ELSE [ok |-> FALSE, val |-> NoneV]

RECURSIVE FetchLoop(_, _, _, _)
FetchLoop(section, i, index, args) ==
    IF i > Len(section) THEN [ok |-> TRUE, args |-> DictSet(args, n_index, IntV(index))]
    ELSE LET name == section[i][1]
             v == section[i][2]
         IN  IF IsIndexed(v)
             THEN IF FetchItem(v, index).ok
                  THEN FetchLoop(section, i + 1, index,
                                 DictSet(args, FieldKey(name, v), FetchItem(v, index).val))
                  ELSE [ok |-> FALSE, args |-> <<>>]
             ELSE FetchLoop(section, i + 1, index, DictSet(args, FieldKey(name, v), ToList(v)))

fetch_arguments_from_list(section, index) == FetchLoop(section, 1, index, <<>>)

\* (variant: the up path is indexed like the down path)
fetch_arguments_up_and_down_SameIndex(o, index, count_convs, down_cls, up_cls) ==
    LET fd == fetch_arguments_from_list(o.down_conv, index)
        fu == fetch_arguments_from_list(o.up_conv, index)
    IN  [ok |-> fd.ok /\ fu.ok,
         down_ok |-> fd.ok,
         args_down |-> IF fd.ok THEN DictSet(fd.args, n_down_conv_cls, down_cls) ELSE <<>>,
         args_up |-> IF fu.ok THEN DictSet(fu.args, n_up_conv_cls, up_cls) ELSE <<>>]

\* fetch_arguments_up_and_down(opt, index, count_convs), with the two classes
\* it reads from self
fetch_arguments_up_and_down(o, index, count_convs, down_cls, up_cls) ==
    LET fd == fetch_arguments_from_list(o.down_conv, index)
        fu == fetch_arguments_from_list(o.up_conv, count_convs - index)
    IN  [ok |-> fd.ok /\ fu.ok,
         down_ok |-> fd.ok,
         args_down |-> IF fd.ok THEN DictSet(fd.args, n_down_conv_cls, down_cls) ELSE <<>>,
         args_up |-> IF fu.ok THEN DictSet(fu.args, n_up_conv_cls, up_cls) ELSE <<>>]

\* ------------------------------------------------------------ configuration
\* one entry of down_conv.down_conv_nn and of up_conv.up_conv_nn
DownChannels(i) == ListConfig(<<IntV(3 + i), IntV(16 * i)>>)
UpChannels(j) == ListConfig(<<IntV(32 + j), IntV(4 * j)>>)
\* ratios in percent: 50 stands for 0.5
RatioAt(i) == IntV(IF i = 1 THEN 50 ELSE 100)

NumClassesSet == {4, 8}
DownNames == {"SAModule", "Unknown"}
UpNames == {"FPModule", "Unknown"}
InnerNames == {"GlobalBaseModule", "Unknown"}
MnnKinds == {"absent", "scalar", "list"}

\* the optional down_conv field max_num_neighbors: left out, one number for
\* every level, or one number per level
MnnField(kind, len) ==
    IF kind = "absent" THEN <<>>
    ELSE IF kind = "scalar" THEN << <<n_max_num_neighbors, IntV(16)>> >>
    ELSE << <<n_max_num_neighbors, ListConfig([i \in 1..len |-> IntV(16 + i)])>> >>

MakeOpt(L, U, radiusList, mnnKind, mnnLen, dn, un, inn, hasInner) ==
    [down_conv |->
        << <<n_module_name, StrV(dn)>>,
           <<n_ratios, ListConfig([i \in 1..L |-> RatioAt(i)])>>,
           <<n_radius, IF radiusList THEN ListConfig([i \in 1..L |-> IntV(i)]) ELSE IntV(1)>>,
           <<n_down_conv_nn, ListConfig([i \in 1..L |-> DownChannels(i)])>> >>
        \o MnnField(mnnKind, mnnLen),
     up_conv |->
        << <<n_module_name, StrV(un)>>,
           <<n_up_conv_nn, ListConfig([j \in 1..U |-> UpChannels(j)])>>,
           <<n_up_k, IntV(3)>> >>,
     has_innermost |-> hasInner,
     innermost |->
        IF hasInner
        THEN << <<n_module_name, StrV(inn)>>,
                <<n_aggr, StrV("max")>>,
                <<n_nn, ListConfig(<<IntV(19), IntV(64)>>)>> >>
        ELSE <<>>]

\* ---------------------------------------------------------- module registry
modules_lib == {"SAModule", "FPModule", "GlobalBaseModule"}

\* getattr(modules_lib, name, None)
LookupOrNone(name) == IF name \in modules_lib THEN StrV(name) ELSE NoneV

DefaultMaxNumNeighbors == 64

NoModule ==
    [cls |-> "", ratio |-> NoneV, radius |-> NoneV, max_num_neighbors |-> NoneV,
     k |-> NoneV, nn |-> <<>>, pool |-> ""]

\* MLP(channels): one (Lin(channels[i-1], channels[i]), activation, BN) per i
MLP(channels) ==
    [i \in 1..(Len(channels.items) - 1) |->
        [in |-> channels.items[i].n, out |-> channels.items[i + 1].n]]

HasLen(v) == v.tag \in {"list", "listconfig"}

\* BaseConvolution.__init__(ratio, radius, *args, **kwargs)
NewBaseConvolution(kwargs) ==
    IF ~(DictHas(kwargs, n_ratio) /\ DictHas(kwargs, n_radius))
    THEN [ok |-> FALSE, m |-> NoModule]
    ELSE [ok |-> TRUE,
          m |-> [NoModule EXCEPT
                    !.cls = "SAModule",
                    !.ratio = DictGet(kwargs, n_ratio),
                    !.radius = DictGet(kwargs, n_radius),
                    !.max_num_neighbors =
                        IF DictHas(kwargs, n_max_num_neighbors)
                        THEN DictGet(kwargs, n_max_num_neighbors)
                        ELSE IntV(DefaultMaxNumNeighbors)]]

\* FPModule.__init__(up_k, up_conv_nn, *args, **kwargs)
NewFPModule(kwargs) ==
    IF ~(DictHas(kwargs, n_up_k) /\ DictHas(kwargs, n_up_conv_nn))
    THEN [ok |-> FALSE, m |-> NoModule]
    ELSE IF ~HasLen(DictGet(kwargs, n_up_conv_nn))
    THEN [ok |-> FALSE, m |-> NoModule]
    ELSE [ok |-> TRUE,
          m |-> [NoModule EXCEPT
                    !.cls = "FPModule",
                    !.k = DictGet(kwargs, n_up_k),
                    !.nn = MLP(DictGet(kwargs, n_up_conv_nn))]]

\* GlobalBaseModule.__init__(nn, aggr='max'): no other keyword is accepted
NewGlobalBaseModule(kwargs) ==
    IF ~DictHas(kwargs, n_nn) \/ ~(DictKeys(kwargs) \subseteq {n_nn, n_aggr})
    THEN [ok |-> FALSE, m |-> NoModule]
    ELSE IF ~HasLen(DictGet(kwargs, n_nn))
    THEN [ok |-> FALSE, m |-> NoModule]
    ELSE [ok |-> TRUE,
          m |-> [NoModule EXCEPT
                    !.cls = "GlobalBaseModule",
                    !.nn = MLP(DictGet(kwargs, n_nn)),
                    !.pool = IF DictHas(kwargs, n_aggr)
                                /\ DictGet(kwargs, n_aggr) # StrV("max")
                             THEN "global_mean_pool" ELSE "global_max_pool"]]

\* (variant: an unresolved class is stored instead of called)
Instantiate_KeepsNone(cls, kwargs) ==
    IF cls.tag # "str" THEN [ok |-> TRUE, m |-> NoModule]
    ELSE IF cls.s = "SAModule" THEN NewBaseConvolution(kwargs)
    ELSE IF cls.s = "FPModule" THEN NewFPModule(kwargs)
    ELSE IF cls.s = "GlobalBaseModule" THEN NewGlobalBaseModule(kwargs)
    ELSE [ok |-> FALSE, m |-> NoModule]

\* cls(**kwargs): calling None, or a call the signature rejects, is a TypeError
Instantiate(cls, kwargs) ==
    IF cls.tag # "str" THEN [ok |-> FALSE, m |-> NoModule]
    ELSE IF cls.s = "SAModule" THEN NewBaseConvolution(kwargs)
    ELSE IF cls.s = "FPModule" THEN NewFPModule(kwargs)
    ELSE IF cls.s = "GlobalBaseModule" THEN NewGlobalBaseModule(kwargs)
    ELSE [ok |-> FALSE, m |-> NoModule]

\* ------------------------------------------------- UnetSkipConnectionBlock
NoBlock ==
    [innermost |-> FALSE, outermost |-> FALSE,
     down |-> NoModule, up |-> NoModule, inner |-> NoModule,
     args_up |-> <<>>, args_down |-> <<>>]

BlockFail(err, inner_cfg) == [ok |-> FALSE, err |-> err, block |-> NoBlock, args_innermost |-> inner_cfg]

\* nn.Sequential(*[submodule]) registers each argument with add_module, which
\* raises TypeError for anything that is neither a Module nor None: the empty
\* list placeholder is rejected
SequentialAccepts(submodule_is_block) == submodule_is_block

\* UnetSkipConnectionBlock.__init__, innermost branch.  args_innermost is the
\* caller's opt.innermost itself: get_from_kwargs pops module_name out of it.
NewInnermostBlock(args_up, args_innermost, outermost) ==
    IF outermost THEN BlockFail("AssertionError", args_innermost)
    ELSE IF ~DictHas(args_innermost, n_module_name)
    THEN BlockFail("KeyError", args_innermost)
    ELSE LET module_name == DictGet(args_innermost, n_module_name)
             popped == DictPop(args_innermost, n_module_name)
             inner == Instantiate(module_name, popped)
             up == Instantiate(DictGet(args_up, n_up_conv_cls),
                               DictPop(args_up, n_up_conv_cls))
         IN  IF module_name.s \notin modules_lib THEN BlockFail("AttributeError", popped)
             ELSE IF ~inner.ok THEN BlockFail("TypeError", popped)
             ELSE IF ~up.ok THEN BlockFail("TypeError", popped)
             ELSE [ok |-> TRUE, err |-> "",
                   block |-> [NoBlock EXCEPT !.innermost = TRUE,
                                             !.inner = inner.m, !.up = up.m,
                                             !.args_up = DictPop(args_up, n_up_conv_cls)],
                   args_innermost |-> popped]

\* UnetSkipConnectionBlock.__init__, the other branch.  output_nc reaches the
\* constructor inside **kwargs, which the constructor never reads.
NewBlock(args_up, args_down, submodule_is_block, outermost, output_nc) ==
    LET down == Instantiate(DictGet(args_down, n_down_conv_cls),
                            DictPop(args_down, n_down_conv_cls))
        up == Instantiate(DictGet(args_up, n_up_conv_cls),
                          DictPop(args_up, n_up_conv_cls))
    IN  IF ~down.ok THEN BlockFail("TypeError", <<>>)
        ELSE IF ~up.ok THEN BlockFail("TypeError", <<>>)
        ELSE IF ~SequentialAccepts(submodule_is_block) THEN BlockFail("TypeError", <<>>)
        ELSE [ok |-> TRUE, err |-> "",
              block |-> [NoBlock EXCEPT !.outermost = outermost,
                                        !.down = down.m, !.up = up.m,
                                        !.args_up = DictPop(args_up, n_up_conv_cls),
                                        !.args_down = DictPop(args_down, n_down_conv_cls)],
              args_innermost |-> <<>>]

\* -------------------------------------------------------------------- state
VARIABLES
    opt,            \* the caller's configuration object
    opt0,           \* its value when the constructor was first entered
    run,            \* how many times the constructor has been entered
    num_classes,    \* the constructor's num_classes argument
    pc,             \* position in UnetBasedModel.__init__ / forward
    status,         \* "running", "built" or "failed"
    error,          \* the exception that ended the constructor
    num_convs,      \* len(opt.down_conv.down_conv_nn)
    down_conv_cls,  \* self.down_conv_cls
    up_conv_cls,    \* self.up_conv_cls
    unet_block,     \* the nest built so far, innermost block first;
                    \* <<>> is the placeholder [] (no block yet)
    index,          \* the loop variable of __init__
    model,          \* self.model, innermost block first
    fetches,        \* the calls of fetch_arguments_from_list so far
    stack,          \* forward: one frame per block being evaluated
    calls,          \* forward: the module calls made so far
    input,          \* forward: the batch given to the model
    output          \* forward: what the model returned

cvars == <<opt, num_classes, pc, status, error, num_convs, down_conv_cls,
           up_conv_cls, unet_block, index, model, fetches>>
fvars == <<stack, calls, input, output>>
vars == <<opt, opt0, run, num_classes, pc, status, error, num_convs, down_conv_cls,
          up_conv_cls, unet_block, index, model, fetches, stack, calls, input, output>>

NoData == <<>>

Init ==
    /\ \E L \in 0..MaxLevels, U \in 0..(MaxLevels + 1), radiusList \in BOOLEAN,
          mnnKind \in MnnKinds, mnnLen \in 0..MaxLevels,
          dn \in DownNames, un \in UpNames, inn \in InnerNames, hasInner \in BOOLEAN :
            /\ (mnnKind # "list" => mnnLen = 0)
            /\ (~hasInner => inn = "GlobalBaseModule")
            /\ opt = MakeOpt(L, U, radiusList, mnnKind, mnnLen, dn, un, inn, hasInner)
    /\ opt0 = opt
    /\ run = 1
    /\ num_classes \in NumClassesSet
    /\ pc = "resolve"
    /\ status = "running"
    /\ error = ""
    /\ num_convs = 0
    /\ down_conv_cls = NoneV
    /\ up_conv_cls = NoneV
    /\ unet_block = <<>>
    /\ index = 0
    /\ model = <<>>
    /\ fetches = <<>>
    /\ stack = <<>>
    /\ calls = <<>>
    /\ input = NoData
    /\ output = NoData

\* the exception leaves the constructor: no model object exists
Raise(err) ==
    /\ pc' = "done"
    /\ status' = "failed"
    /\ error' = err

FetchEntry(sec, idx, f) == [section |-> sec, index |-> idx, ok |-> f.ok, args |-> f.args]

\* the fetch_arguments_from_list calls one fetch_arguments_up_and_down makes
UpDownEntries(o, idx, count_convs) ==
    LET fd == fetch_arguments_from_list(o.down_conv, idx)
    IN  <<FetchEntry("down_conv", idx, fd)>>
        \o (IF fd.ok
            THEN <<FetchEntry("up_conv", count_convs - idx,
                              fetch_arguments_from_list(o.up_conv, count_convs - idx))>>
            ELSE <<>>)

\* __init__ lines 60-63
Resolve ==
    /\ pc = "resolve"
    /\ num_convs' = Len(DictGet(opt.down_conv, n_down_conv_nn).items)
    /\ down_conv_cls' = LookupOrNone(DictGet(opt.down_conv, n_module_name).s)
    /\ up_conv_cls' = LookupOrNone(DictGet(opt.up_conv, n_module_name).s)
    /\ pc' = "global"
    /\ UNCHANGED <<opt, opt0, run, num_classes, status, error, unet_block, index, model, fetches>>
    /\ UNCHANGED fvars

\* where __init__ goes after lines 66-74: into the loop, or past it
AfterGlobal ==
    IF num_convs > 1
    THEN pc' = "loop" /\ index' = num_convs - 1
    ELSE pc' = "outermost" /\ index' = num_convs

\* (variant: the extra up level of the global block is forgotten)
LevelsAgree_NoExtraLevel(o) ==
    Len(DictGet(o.down_conv, n_down_conv_nn).items)
        = Len(DictGet(o.up_conv, n_up_conv_nn).items)

\* the assertion of line 68
LevelsAgree(o) ==
    Len(DictGet(o.down_conv, n_down_conv_nn).items) + 1
        = Len(DictGet(o.up_conv, n_up_conv_nn).items)

\* __init__ lines 66-72: the innermost block
BuildInnermost ==
    /\ pc = "global"
    /\ opt.has_innermost
    /\ UNCHANGED <<opt0, run, num_classes, num_convs, down_conv_cls, up_conv_cls, model>>
    /\ UNCHANGED fvars
    /\ IF ~LevelsAgree(opt)
       THEN /\ Raise("AssertionError")
            /\ UNCHANGED <<opt, unet_block, index, fetches>>
       ELSE LET f == fetch_arguments_from_list(opt.up_conv, 0)
                b == NewInnermostBlock(DictSet(f.args, n_up_conv_cls, up_conv_cls),
                                       opt.innermost, FALSE)
            IN  /\ fetches' = Append(fetches, FetchEntry("up_conv", 0, f))
                /\ IF ~f.ok
                   THEN /\ Raise("IndexError")
                        /\ UNCHANGED <<opt, unet_block, index>>
                   ELSE /\ opt' = [opt EXCEPT !.innermost = b.args_innermost]
                        /\ IF ~b.ok
                           THEN /\ Raise(b.err)
                                /\ UNCHANGED <<unet_block, index>>
                           ELSE /\ unet_block' = <<b.block>>
                                /\ AfterGlobal
                                /\ UNCHANGED <<status, error>>

\* __init__ lines 73-74: unet_block = []
Placeholder ==
    /\ pc = "global"
    /\ ~opt.has_innermost
    /\ unet_block' = <<>>
    /\ AfterGlobal
    /\ UNCHANGED <<opt, opt0, run, num_classes, status, error, num_convs, down_conv_cls,
                   up_conv_cls, model, fetches>>
    /\ UNCHANGED fvars

\* __init__ lines 77-80: one iteration of the loop
LoopIteration ==
    /\ pc = "loop"
    /\ UNCHANGED <<opt, opt0, run, num_classes, num_convs, down_conv_cls, up_conv_cls, model>>
    /\ UNCHANGED fvars
    /\ LET a == fetch_arguments_up_and_down(opt, index, num_convs, down_conv_cls, up_conv_cls)
           b == NewBlock(a.args_up, a.args_down, Len(unet_block) > 0, FALSE, NoneV)
       IN  /\ fetches' = fetches \o UpDownEntries(opt, index, num_convs)
           /\ IF ~a.ok
              THEN Raise("IndexError") /\ UNCHANGED <<unet_block, index>>
              ELSE IF ~b.ok
              THEN Raise(b.err) /\ UNCHANGED <<unet_block, index>>
              ELSE /\ unet_block' = Append(unet_block, b.block)
                   /\ IF index > 1
                      THEN pc' = "loop" /\ index' = index - 1
                      ELSE pc' = "outermost" /\ index' = index
                   /\ UNCHANGED <<status, error>>

\* __init__ lines 84-87: the outermost block
BuildOutermost ==
    /\ pc = "outermost"
    /\ index' = index - 1
    /\ UNCHANGED <<opt, opt0, run, num_classes, num_convs, down_conv_cls, up_conv_cls, unet_block>>
    /\ UNCHANGED fvars
    /\ LET a == fetch_arguments_up_and_down(opt, index - 1, num_convs,
                                            down_conv_cls, up_conv_cls)
           b == NewBlock(a.args_up, a.args_down, Len(unet_block) > 0, TRUE,
                         IntV(num_classes))
       IN  /\ fetches' = fetches \o UpDownEntries(opt, index - 1, num_convs)
           /\ IF ~a.ok
              THEN Raise("IndexError") /\ UNCHANGED model
              ELSE IF ~b.ok
              THEN Raise(b.err) /\ UNCHANGED model
              ELSE /\ model' = Append(unet_block, b.block)
                   /\ pc' = "done"
                   /\ status' = "built"
                   /\ UNCHANGED error

\* the caller constructs another UnetBasedModel from the same opt
ConstructAgain ==
    /\ pc = "done" /\ stack = <<>> /\ input = NoData
    /\ run < MaxRuns
    /\ run' = run + 1
    /\ pc' = "resolve"
    /\ status' = "running"
    /\ error' = ""
    /\ num_convs' = 0
    /\ down_conv_cls' = NoneV
    /\ up_conv_cls' = NoneV
    /\ unet_block' = <<>>
    /\ index' = 0
    /\ model' = <<>>
    /\ fetches' = <<>>
    /\ UNCHANGED <<opt, opt0, num_classes>>
    /\ UNCHANGED fvars

Construct ==
    Resolve \/ BuildInnermost \/ Placeholder \/ LoopIteration \/ BuildOutermost
        \/ ConstructAgain

\* ------------------------------------------------------------------ forward
\* A batch is the tuple <<x, pos, batch>>: x is the feature tensor, kept as its
\* shape [rows, width]; pos is the sequence of the points (a point is named by
\* a positive number, 0 is the origin); batch is the sequence of cloud indices.
Feat(rows, width) == [rows |-> rows, width |-> width]

\* batch vectors: cloud indices start at 0 and grow by at most one
IsBatchVector(b) ==
    /\ b[1] = 0
    /\ \A i \in 1..(Len(b) - 1) : b[i + 1] \in {b[i], b[i] + 1}

Inputs ==
    UNION {{<<Feat(n, 3), [i \in 1..n |-> i], b>> :
                b \in {c \in [1..n -> 0..(n - 1)] : IsBatchVector(c)}} :
           n \in 1..MaxPoints}

RECURSIVE SortedSeq(_)
SortedSeq(S) ==
    IF S = {} THEN <<>>
    ELSE LET m == CHOOSE a \in S : \A b \in S : a <= b
         IN  <<m>> \o SortedSeq(S \ {m})

Gather(seq, idx) == [j \in 1..Len(idx) |-> seq[idx[j]]]

\* fps(pos, batch, ratio): per cloud, ceil(ratio * n) of its n points; which
\* points is the backend's (randomly started) choice
FpsChoices(pos, batch, ratio) ==
    LET N == Len(pos)
        Clouds == {batch[i] : i \in 1..N}
        Of(c) == {i \in 1..N : batch[i] = c}
        Quota(c) == (ratio.n * Cardinality(Of(c)) + 99) \div 100
    IN  {SortedSeq(S) : S \in {T \in SUBSET (1..N) :
            \A c \in Clouds : Cardinality(T \cap Of(c)) = Quota(c)}}

\* width of nn(x): the last layer's, or x's own when the MLP has no layer
MLPOut(nn, width) == IF Len(nn) = 0 THEN width ELSE nn[Len(nn)].out

\* BaseConvolution.forward: the width conv gives is the concrete operator's
\* business and is not tracked (0)
BaseConvolutionForward(m, data, idx) ==
    <<Feat(Len(idx), 0), Gather(data[2], idx), Gather(data[3], idx)>>

\* GlobalBaseModule.forward
GlobalBaseModuleForward(m, data) ==
    LET clouds == Cardinality({data[3][i] : i \in 1..Len(data[3])})
    IN  <<Feat(clouds, MLPOut(m.nn, data[1].width + 3)),
          [i \in 1..clouds |-> 0],
          [i \in 1..clouds |-> i - 1]>>

\* (variant: the coarse positions and batch are returned)
FPModuleForward_Coarse(m, data) ==
    <<Feat(Len(data[5]), MLPOut(m.nn, data[1].width + data[4].width)), data[2], data[3]>>

\* FPModule.forward: x, pos, batch, x_skip, pos_skip, batch_skip = data
FPModuleForward(m, data) ==
    LET x == data[1]
        x_skip == data[4]
        pos_skip == data[5]
        batch_skip == data[6]
    IN  <<Feat(Len(pos_skip), MLPOut(m.nn, x.width + x_skip.width)), pos_skip, batch_skip>>

\* (variant: the original input comes first)
SkipTuple_InputFirst(data_out, data) == data \o data_out

\* (*data_out, *data)
SkipTuple(data_out, data) == data_out \o data

Frame(blk, data) == [blk |-> blk, pc |-> "start", data |-> data, data_out |-> NoData]

Call(blk, op, arg, out) == [blk |-> blk, op |-> op, arg |-> arg, out |-> out]

Top == stack[Len(stack)]

\* the caller runs the built model on a batch: self.model(data)
StartForward ==
    /\ pc = "done" /\ status = "built"
    /\ stack = <<>> /\ input = NoData
    /\ \E d \in Inputs :
        /\ input' = d
        /\ stack' = <<Frame(Len(model), d)>>
    /\ UNCHANGED <<opt0, run, calls, output>>
    /\ UNCHANGED cvars

\* forward line 151: data_out = self.down(data)
CallDown ==
    /\ stack # <<>> /\ Top.pc = "start" /\ ~model[Top.blk].innermost
    /\ \E idx \in FpsChoices(Top.data[2], Top.data[3], model[Top.blk].down.ratio) :
        LET out == BaseConvolutionForward(model[Top.blk].down, Top.data, idx)
        IN  /\ stack' = [stack EXCEPT ![Len(stack)].pc = "submodule",
                                      ![Len(stack)].data_out = out]
            /\ calls' = Append(calls, Call(Top.blk, "down", Top.data, out))
    /\ UNCHANGED <<opt0, run, input, output>>
    /\ UNCHANGED cvars

\* forward line 152: self.submodule(data_out) is entered
CallSubmodule ==
    /\ stack # <<>> /\ Top.pc = "submodule" /\ Top.blk > 1
    /\ stack' = Append([stack EXCEPT ![Len(stack)].pc = "wait"],
                       Frame(Top.blk - 1, Top.data_out))
    /\ calls' = Append(calls, Call(Top.blk, "submodule", Top.data_out, NoData))
    /\ UNCHANGED <<opt0, run, input, output>>
    /\ UNCHANGED cvars

\* forward line 147: data_out = self.inner(data)
CallInner ==
    /\ stack # <<>> /\ Top.pc = "start" /\ model[Top.blk].innermost
    /\ LET out == GlobalBaseModuleForward(model[Top.blk].inner, Top.data)
       IN  /\ stack' = [stack EXCEPT ![Len(stack)].pc = "up",
                                     ![Len(stack)].data_out = out]
           /\ calls' = Append(calls, Call(Top.blk, "inner", Top.data, out))
    /\ UNCHANGED <<opt0, run, input, output>>
    /\ UNCHANGED cvars

\* forward lines 148-149 and 153-154: return self.up((*data_out, *data));
\* the value returned is the caller's data_out2, or the model's output
CallUp ==
    /\ stack # <<>> /\ Top.pc = "up"
    /\ LET arg == SkipTuple(Top.data_out, Top.data)
           out == FPModuleForward(model[Top.blk].up, arg)
           rest == SubSeq(stack, 1, Len(stack) - 1)
       IN  /\ calls' = Append(calls, Call(Top.blk, "up", arg, out))
           /\ IF rest = <<>>
              THEN stack' = rest /\ output' = out
              ELSE /\ stack' = [rest EXCEPT ![Len(rest)].pc = "up",
                                            ![Len(rest)].data_out = out]
                   /\ UNCHANGED output
    /\ UNCHANGED <<opt0, run, input>>
    /\ UNCHANGED cvars

Forward == StartForward \/ CallDown \/ CallSubmodule \/ CallInner \/ CallUp


Next == Construct \/ Forward

Spec == Init /\ [][Next]_vars

TypeOK ==
    /\ pc \in {"resolve", "global", "loop", "outermost", "done"}
    /\ status \in {"running", "built", "failed"}

\* ================================================================== claims
DownLevels == Len(DictGet(opt0.down_conv, n_down_conv_nn).items)
UpLevels == Len(DictGet(opt0.up_conv, n_up_conv_nn).items)
NamesResolve ==
    /\ DictGet(opt0.down_conv, n_module_name).s \in {"SAModule", "FPModule", "GlobalBaseModule"}
    /\ DictGet(opt0.up_conv, n_module_name).s \in {"SAModule", "FPModule", "GlobalBaseModule"}
    /\ opt0.has_innermost =>
         DictGet(opt0.innermost, n_module_name).s \in {"SAModule", "FPModule", "GlobalBaseModule"}
SectionOf(e) == IF e.section = "down_conv" THEN opt0.down_conv ELSE opt0.up_conv
IsSequence(v) == v.tag = "listconfig"
EndsInS(name) == name[Len(name)] = "s"
DropLast(name) == SubSeq(name, 1, Len(name) - 1)
FetchesOf(sec) == SelectSeq(fetches, LAMBDA e : e.section = sec)

\* C1: a configuration without an innermost section, with L >= 1 down levels,
\* resolvable module names and sequences long enough for every level, is
\* built into exactly L nested blocks.
C1_PlainConfigBuildsLBlocks ==
    (/\ pc = "done" /\ run = 1
     /\ ~opt0.has_innermost
     /\ DownLevels >= 1
     /\ NamesResolve
     /\ \A i \in 1..Len(fetches) : fetches[i].ok)
    => (status = "built" /\ Len(model) = DownLevels)

\* C2: the outermost block of a built model has an up module whose last layer
\* is num_classes wide.
C2_OutermostWidthIsNumClasses ==
    status = "built" =>
        LET nn == model[Len(model)].up.nn
        IN  Len(nn) > 0 /\ nn[Len(nn)].out = num_classes

\* C3: with an innermost section and len(down_conv_nn) + 1 # len(up_conv_nn)
\* the constructor fails on the assertion before it fetches any argument or
\* builds any block, and no model is produced.
C3_MismatchFailsBeforeAnyBlock ==
    (opt0.has_innermost /\ DownLevels + 1 # UpLevels) =>
        /\ status # "built"
        /\ model = <<>> /\ unet_block = <<>> /\ fetches = <<>>
        /\ pc \in {"resolve", "global", "done"}
        /\ pc = "done" => (status = "failed" /\ error = "AssertionError")

C3_Witness ==
    /\ opt0.has_innermost /\ DownLevels + 1 # UpLevels
    /\ pc = "done" /\ error = "AssertionError"

\* C4 (as claimed): whenever a sequence-valued field of the section is no
\* longer than the level index i >= 0, empty sequences included, the fetch fails.
C4_ShortSequenceFails ==
    \A n \in 1..Len(fetches) :
        LET e == fetches[n]
            sec == SectionOf(e)
        IN  (e.index >= 0 /\ \E f \in 1..Len(sec) :
                IsSequence(sec[f][2]) /\ Len(sec[f][2].items) <= e.index)
            => ~e.ok

\* C4 (amended): whenever a non-empty sequence-valued field is no longer than
\* the level index i >= 0, the fetch fails and so does the construction; an
\* empty sequence is not indexed but handed over whole, as an empty plain
\* list under its unchanged name.
C4_NonEmptyShortSequenceFails ==
    \A n \in 1..Len(fetches) :
        LET e == fetches[n]
            sec == SectionOf(e)
        IN  /\ (e.index >= 0 /\ \E f \in 1..Len(sec) :
                    /\ IsSequence(sec[f][2])
                    /\ Len(sec[f][2].items) > 0
                    /\ Len(sec[f][2].items) <= e.index)
               => (~e.ok /\ e.args = <<>> /\ status = "failed" /\ model = <<>>)
            /\ e.ok =>
                 \A f \in 1..Len(sec) :
                    (IsSequence(sec[f][2]) /\ Len(sec[f][2].items) = 0)
                    => (/\ DictHas(e.args, sec[f][1])
                        /\ DictGet(e.args, sec[f][1]) = ListV(<<>>))

C4_Witness ==
    \E n \in 1..Len(fetches) :
        LET e == fetches[n]
            sec == SectionOf(e)
        IN  /\ ~e.ok /\ e.index >= 1
            /\ \E f \in 1..Len(sec) :
                 IsSequence(sec[f][2]) /\ Len(sec[f][2].items) \in 1..e.index

\* C5: a module name of down_conv, up_conv or innermost that the registry does
\* not hold makes the constructor fail: no model is ever built from it.
C5_UnknownNameNeverBuilds ==
    ~NamesResolve =>
        /\ status # "built" /\ model = <<>>
        /\ pc = "done" => status = "failed"

C5_Witness ==
    /\ DictGet(opt0.down_conv, n_module_name).s = "Unknown"
    /\ DictGet(opt0.up_conv, n_module_name).s = "FPModule"
    /\ ~opt0.has_innermost
    /\ pc = "done" /\ status = "failed" /\ error = "TypeError"
    /\ \A n \in 1..Len(fetches) : fetches[n].ok

\* the key C6 claims for a field, and the one the amended claim gives it
ClaimedKey(name) ==
    IF EndsInS(name) /\ name # n_radius THEN DropLast(name) ELSE name
AmendedKey(name, v) ==
    IF IsSequence(v) /\ Len(v.items) > 0 THEN ClaimedKey(name) ELSE name

\* C6 (as claimed): every field, scalar or sequence, whose name ends in 's' and
\* is not 'radius' is found under the name without its last letter, every
\* other field under its own name.
C6_EveryFieldSingularised ==
    \A n \in 1..Len(fetches) :
        LET e == fetches[n]
            sec == SectionOf(e)
        IN  e.ok => \A f \in 1..Len(sec) : DictHas(e.args, ClaimedKey(sec[f][1]))

\* C6 (amended): only a non-empty sequence field is renamed (last letter
\* dropped when the name ends in 's' and is not 'radius') and holds its
\* element at the level index; a scalar or an empty sequence keeps its name,
\* whatever its last letter, and its value.  No other key but 'index' exists.
C6_NonEmptySequencesSingularised ==
    \A n \in 1..Len(fetches) :
        LET e == fetches[n]
            sec == SectionOf(e)
        IN  e.ok =>
              /\ \A f \in 1..Len(sec) :
                    LET name == sec[f][1]
                        v == sec[f][2]
                        key == AmendedKey(name, v)
                    IN  /\ DictHas(e.args, key)
                        /\ DictGet(e.args, key) =
                             IF IsSequence(v) /\ Len(v.items) > 0
                             THEN ToList(ListIndex(v.items, e.index))
                             ELSE ToList(v)
              /\ DictKeys(e.args) =
                    {AmendedKey(sec[f][1], sec[f][2]) : f \in 1..Len(sec)} \cup {n_index}

C6_Witness ==
    \E n \in 1..Len(fetches) :
        LET e == fetches[n]
        IN  /\ e.ok /\ e.section = "down_conv"
            /\ DictHas(e.args, n_ratio)
            /\ DictHas(e.args, n_radius)
            /\ DictGet(opt0.down_conv, n_radius).tag = "listconfig"
            /\ DictHas(e.args, n_max_num_neighbors)
            /\ DictGet(e.args, n_max_num_neighbors).tag = "int"

\* the module calls block b has made, and the batch block b was called with
CallsOf(b) == SelectSeq(calls, LAMBDA c : c.blk = b)
OpsOf(b) == [i \in 1..Len(CallsOf(b)) |-> CallsOf(b)[i].op]
IsPrefix(p, q) == Len(p) <= Len(q) /\ p = SubSeq(q, 1, Len(p))
StepsOf(b) ==
    IF model[b].innermost THEN <<"inner", "up">> ELSE <<"down", "submodule", "up">>
BlockInput(b) == IF b = Len(model) THEN input ELSE CallsOf(b + 1)[2].arg

\* C7: the model's output carries the positions and batch indices of its
\* input, one feature row per input point; and what any nested block returns
\* carries the positions and batch indices of that block's own input.
C7_OutputKeepsInputPoints ==
    /\ output # NoData =>
         /\ output[2] = input[2] /\ output[3] = input[3]
         /\ output[1].rows = Len(input[2])
    /\ \A n \in 1..Len(calls) :
         calls[n].op = "up" =>
            /\ Len(calls[n].out) = 3
            /\ calls[n].out[2] = BlockInput(calls[n].blk)[2]
            /\ calls[n].out[3] = BlockInput(calls[n].blk)[3]
            /\ calls[n].out[1].rows = Len(BlockInput(calls[n].blk)[2])

C7_Witness ==
    /\ output # NoData
    /\ opt0.has_innermost /\ DownLevels >= 2
    /\ Len(input[2]) >= 3
    /\ \E n \in 1..Len(calls) : calls[n].op = "down" /\ Len(calls[n].out[2]) < Len(input[2])

\* C8: in a model built with an innermost section and L >= 1 down levels, the
\* block of level i holds the down arguments of position i and the up
\* arguments of position L - i, the innermost block the up arguments of
\* position 0, each under the matching 'index'; every down position 0..L-1
\* and every up position 0..L was fetched exactly once.
C8_LevelsMirrorPositions ==
    (status = "built" /\ opt0.has_innermost /\ DownLevels >= 1) =>
        LET L == DownLevels
            downs == DictGet(opt0.down_conv, n_down_conv_nn).items
            ups == DictGet(opt0.up_conv, n_up_conv_nn).items
        IN  /\ Len(model) = L + 1
            /\ model[1].innermost /\ ~model[1].outermost
            /\ DictGet(model[1].args_up, n_index) = IntV(0)
            /\ DictGet(model[1].args_up, n_up_conv_nn) = ToList(ups[1])
            /\ \A i \in 0..(L - 1) :
                 LET b == model[L + 1 - i]
                 IN  /\ ~b.innermost /\ (b.outermost <=> i = 0)
                     /\ DictGet(b.args_down, n_index) = IntV(i)
                     /\ DictGet(b.args_down, n_down_conv_nn) = ToList(downs[i + 1])
                     /\ DictGet(b.args_up, n_index) = IntV(L - i)
                     /\ DictGet(b.args_up, n_up_conv_nn) = ToList(ups[L - i + 1])
            /\ Len(FetchesOf("down_conv")) = L
            /\ {FetchesOf("down_conv")[n].index : n \in 1..L} = 0..(L - 1)
            /\ Len(FetchesOf("up_conv")) = L + 1
            /\ {FetchesOf("up_conv")[n].index : n \in 1..(L + 1)} = 0..L

C8_Witness == status = "built" /\ opt0.has_innermost /\ DownLevels >= 2

\* C9: a block that is not innermost calls its down module, then its nested
\* submodule, then its up module, each once; the submodule gets what the down
\* module returned and the up module gets the submodule's result followed by
\* the block's own input.  An innermost block calls its inner module and then
\* its up module, on the inner module's result followed by the block's input.
C9_DownSubmoduleUpInOrder ==
    \A b \in 1..Len(model) :
        LET cs == CallsOf(b)
        IN  /\ IsPrefix(OpsOf(b), StepsOf(b))
            /\ output # NoData => OpsOf(b) = StepsOf(b)
            /\ Len(cs) >= 1 => cs[1].arg = BlockInput(b)
            /\ (model[b].innermost /\ Len(cs) >= 2) =>
                 cs[2].arg = cs[1].out \o cs[1].arg
            /\ (~model[b].innermost /\ Len(cs) >= 2) =>
                 cs[2].arg = cs[1].out
            /\ (~model[b].innermost /\ Len(cs) >= 3) =>
                 /\ OpsOf(b - 1) = StepsOf(b - 1)
                 /\ cs[3].arg = CallsOf(b - 1)[Len(CallsOf(b - 1))].out \o cs[1].arg
                 /\ Len(cs[3].arg) = 6

C9_Witness ==
    /\ output # NoData /\ Len(model) >= 3
    /\ Len(calls) = 3 * (Len(model) - 1) + 2

\* C10: constructing the model leaves the caller's configuration as it was.
C10_ConfigUnchanged == opt = opt0

====
